---- MODULE Spec2Model ----
(***************************************************************************)
(* A model of proj.py: the one-shot project chooser.  main() runs six      *)
(* sections in sequence (search root, markers, file enumeration, marker    *)
(* scan, chooser, result), every one of which may end the process.         *)
(*                                                                         *)
(* Python strings are modelled as sequences of one-character strings, so   *)
(* that basename, dirname, join, realpath, split, splitlines and strip are *)
(* computed character by character, as the library computes them.          *)
(***************************************************************************)
EXTENDS Integers, Sequences, FiniteSets, TLC

(***************************************************************************)
(* Bounds of the model.                                                    *)
(***************************************************************************)
\* at most this many files exist below the repository directory
MaxFiles == 3

(***************************************************************************)
(* Characters and strings.                                                 *)
(***************************************************************************)
NUL == "NUL"
TAB == "\t"
LF == "\n"
SLASH == "/"

\* The characters in increasing code-point order: Python compares strings
\* by code point, and only the relative order of two characters matters.
Alphabet ==
    << NUL, TAB, LF, " ", "-", ".", "/", "B", "C", "D", "I", "L", "U", "Z",
       "a", "b", "c", "d", "e", "f", "g", "i", "j", "k", "l", "m", "n", "o",
       "p", "r", "s", "t", "u", "x", "y", "z" >>

Ord(c) == CHOOSE i \in 1..Len(Alphabet) : Alphabet[i] = c

Whitespace == {" ", TAB, LF}

\* Optional values: None, or Some(v).
None == << >>
Some(v) == << v >>

\* str.__lt__: lexicographic comparison by code point.
RECURSIVE StrLess(_, _)
StrLess(s, t) ==
    IF t = << >> THEN FALSE
    ELSE IF s = << >> THEN TRUE
    ELSE IF s[1] = t[1] THEN StrLess(Tail(s), Tail(t))
    ELSE Ord(s[1]) < Ord(t[1])

\* The positions of character c in s.
Positions(s, c) == {i \in 1..Len(s) : s[i] = c}

Max(S) == CHOOSE x \in S : \A y \in S : y <= x
Min(S) == CHOOSE x \in S : \A y \in S : x <= y

\* str.split(sep) for a one-character separator: the empty string gives [""].
RECURSIVE Split(_, _)
Split(s, sep) ==
    IF Positions(s, sep) = {} THEN << s >>
    ELSE LET i == Min(Positions(s, sep))
         IN  << SubSeq(s, 1, i - 1) >> \o Split(SubSeq(s, i + 1, Len(s)), sep)

\* str.join of a list of strings.
RECURSIVE Join(_, _)
Join(sep, parts) ==
    IF parts = << >> THEN << >>
    ELSE IF Len(parts) = 1 THEN parts[1]
    ELSE parts[1] \o sep \o Join(sep, Tail(parts))

NonEmpty(s) == s # << >>

\* str.split() without arguments: runs of whitespace separate, no empty words.
RECURSIVE SplitWords(_)
SplitWords(s) ==
    IF s = << >> THEN << >>
    ELSE IF s[1] \in Whitespace THEN SplitWords(Tail(s))
    ELSE LET ws == {i \in 1..Len(s) : s[i] \in Whitespace}
             e == IF ws = {} THEN Len(s) + 1 ELSE Min(ws)
         IN  << SubSeq(s, 1, e - 1) >> \o SplitWords(SubSeq(s, e, Len(s)))

\* str.strip(): drops leading and trailing whitespace.
Strip(s) ==
    LET keep == {i \in 1..Len(s) : s[i] \notin Whitespace}
    IN  IF keep = {} THEN << >> ELSE SubSeq(s, Min(keep), Max(keep))

\* str.splitlines(): the lines without their terminators; a final terminator
\* opens no further line.
SplitLines(s) ==
    LET parts == Split(s, LF)
    IN  IF parts[Len(parts)] = << >> THEN SubSeq(parts, 1, Len(parts) - 1)
        ELSE parts

\* sel.split("\t", 1)[1]: what follows the first tab of a string that has one.
AfterFirstTab(sel) == SubSeq(sel, Min(Positions(sel, TAB)) + 1, Len(sel))

\* Sorted in decreasing order.
RECURSIVE Sorted_Descending(_)
Sorted_Descending(S) ==
    IF S = {} THEN << >>
    ELSE LET m == CHOOSE x \in S : \A y \in S \ {x} : StrLess(y, x)
         IN  << m >> \o Sorted_Descending(S \ {m})

\* sorted(set of strings): the strictly increasing list of its members.
RECURSIVE Sorted(_)
Sorted(S) ==
    IF S = {} THEN << >>
    ELSE LET m == CHOOSE x \in S : \A y \in S \ {x} : StrLess(x, y)
         IN  << m >> \o Sorted(S \ {m})

Range(f) == {f[i] : i \in DOMAIN f}

(***************************************************************************)
(* os.path (posixpath).  No path of the model holds a ".." component.      *)
(***************************************************************************)
\* p.rfind("/") + 1: the position of the last slash, 0 when there is none.
LastSlash(p) == IF Positions(p, SLASH) = {} THEN 0 ELSE Max(Positions(p, SLASH))

\* os.path.basename: what follows the last slash.
basename(p) == SubSeq(p, LastSlash(p) + 1, Len(p))

\* str.rstrip("/")
RECURSIVE RStripSlash(_)
RStripSlash(s) ==
    IF s # << >> /\ s[Len(s)] = SLASH THEN RStripSlash(SubSeq(s, 1, Len(s) - 1))
    ELSE s

\* os.path.dirname: what precedes the last slash, without trailing slashes
\* unless it consists of slashes only.
dirname(p) ==
    LET head == SubSeq(p, 1, LastSlash(p))
    IN  IF head # << >> /\ (\E i \in 1..Len(head) : head[i] # SLASH)
        THEN RStripSlash(head)
        ELSE head

\* os.path.join(a, b)
join(a, b) ==
    IF b # << >> /\ b[1] = SLASH THEN b
    ELSE IF a = << >> \/ a[Len(a)] = SLASH THEN a \o b
    ELSE a \o << SLASH >> \o b

\* The components of a path: empty and "." components name nothing.
IsName(c) == c # << >> /\ c # << "." >>
Components(p) == SelectSeq(Split(p, SLASH), IsName)

\* The directory the process is started in, and the one real tree of the
\* model with a symbolic link that points to it.
RepoDir == << "/", "r" >>
LinkDir == << "/", "l" >>
Cwd == RepoDir
SymLinks == { << LinkDir, RepoDir >> }

IsLink(p) == \E l \in SymLinks : l[1] = p
Target(p) == (CHOOSE l \in SymLinks : l[1] = p)[2]

RECURSIVE Resolve(_, _)
Resolve(acc, comps) ==
    IF comps = << >> THEN acc
    ELSE LET next == acc \o << SLASH >> \o comps[1]
         IN  Resolve(IF IsLink(next) THEN Target(next) ELSE next, Tail(comps))

\* real(p) = os.path.realpath(p): absolute, normalised, symbolic links resolved.
real(p) ==
    LET abs == IF p # << >> /\ p[1] = SLASH THEN p ELSE join(Cwd, p)
        r == Resolve(<< >>, Components(abs))
    IN  IF r = << >> THEN << SLASH >> ELSE r

\* The length of the longest common prefix of two component lists.
RECURSIVE CommonLen(_, _)
CommonLen(a, b) ==
    IF a = << >> \/ b = << >> \/ a[1] # b[1] THEN 0
    ELSE 1 + CommonLen(Tail(a), Tail(b))

\* os.path.relpath(path, start) for absolute arguments.
relpath(path, start) ==
    LET sl == Components(start)
        pl == Components(path)
        i == CommonLen(sl, pl)
        rel == [k \in 1..(Len(sl) - i) |-> << ".", "." >>] \o SubSeq(pl, i + 1, Len(pl))
    IN  IF rel = << >> THEN << "." >> ELSE Join(<< SLASH >>, rel)

(***************************************************************************)
(* The world of one run: the environment, git, and the files on disk.      *)
(***************************************************************************)
PackageJson == << "p", "a", "c", "k", "a", "g", "e", ".", "j", "s", "o", "n" >>
GoMod == << "g", "o", ".", "m", "o", "d" >>
PyprojectToml == << "p", "y", "p", "r", "o", "j", "e", "c", "t", ".", "t", "o", "m", "l" >>
CargoToml == << "C", "a", "r", "g", "o", ".", "t", "o", "m", "l" >>
BuildBazel == << "B", "U", "I", "L", "D", ".", "b", "a", "z", "e", "l" >>
PomXml == << "p", "o", "m", ".", "x", "m", "l" >>
SetupCfg == << "s", "e", "t", "u", "p", ".", "c", "f", "g" >>

\* The default of PROJECT_MARKERS.
DefaultMarkers ==
    Join(<< " " >>, << PackageJson, GoMod, PyprojectToml, CargoToml, BuildBazel,
                       PomXml, SetupCfg >>)

DotGit == << ".", "g", "i", "t" >>

\* Under(d, n): the path of entry n in directory d.
Under(d, n) == d \o << SLASH >> \o n

\* The files that may exist below RepoDir: markers at the top level, in a
\* directory, in a directory below it and in a directory whose name sorts
\* between the two; an ordinary file; a file of the git metadata directory;
\* a file of a directory that .gitignore excludes.
DirA == Under(RepoDir, << "a" >>)
FileUniverse ==
    { Under(RepoDir, GoMod),
      Under(DirA, GoMod),
      Under(DirA, PomXml),
      Under(Under(RepoDir, << "a", "-", "b" >>), CargoToml),
      Under(Under(DirA, << "s" >>), GoMod),
      Under(Under(RepoDir, << "b" >>), << "x" >>),
      Under(Under(RepoDir, DotGit), PomXml),
      Under(Under(RepoDir, << "n" >>), GoMod) }

IgnoredDir == Under(RepoDir, << "n" >>)

\* The values of MONOREPO_ROOT: unset, empty, a symbolic link to the
\* repository, a directory of the repository written with a trailing slash.
RootOverrides == { None, Some(<< >>), Some(LinkDir), Some(DirA \o << SLASH >>) }

\* The values of PROJECT_MARKERS: unset, or a list of its own.
MarkerOverrides == { None, Some(<< " ", "x", " ", " " >> \o PomXml) }

\* What git finds: no git executable; a directory outside every repository;
\* the work tree of RepoDir; the metadata directory of RepoDir, which is
\* inside the repository and outside its work tree.
GitStates == { "missing", "notrepo", "repo", "gitdir" }

VARIABLES
    env_root,      \* MONOREPO_ROOT
    env_markers,   \* PROJECT_MARKERS
    gitState,      \* what git finds
    fs,            \* the files on disk
    pc,            \* the section main() is about to run; "done" after exit
    git_root, root, markers, files, candidates, lines,
    out, returncode, key, full,
    enumerated,    \* "none", "git" or "walk": what produced files
    stdout,        \* the characters written to standard output
    stderr,        \* the diagnostics written to standard error
    exitStatus,    \* the exit status of the process, once pc = "done"
    log,           \* the sections and side effects so far, in order
    failed,        \* the section that ended the run, "" when none did
    chooserCalls,  \* the input given to each chooser process spawned
    editorCalls,   \* the path given to each editor launch attempted
    which_code,    \* shutil.which("code"): "unset", "found" or "absent"
    launchFailed,  \* an editor launch raised
    editorProc     \* "none", "running", "exited"

world == << env_root, env_markers, gitState, fs >>
locals == << git_root, root, markers, files, candidates, lines, out, returncode,
             key, full, enumerated >>
effects == << stdout, stderr, exitStatus, log, failed, chooserCalls, editorCalls,
              which_code, launchFailed, editorProc >>
vars == << world, pc, locals, effects >>

Init ==
    /\ env_root \in RootOverrides
    /\ env_markers \in MarkerOverrides
    /\ gitState \in GitStates
    /\ fs \in {F \in SUBSET FileUniverse : Cardinality(F) <= MaxFiles}
    /\ pc = "root"
    /\ git_root = None
    /\ root = << >>
    /\ markers = << >>
    /\ files = << >>
    /\ candidates = << >>
    /\ lines = << >>
    /\ out = << >>
    /\ returncode = 0
    /\ key = << >>
    /\ full = << >>
    /\ enumerated = "none"
    /\ stdout = << >>
    /\ stderr = << >>
    /\ exitStatus = 0
    /\ log = << >>
    /\ failed = ""
    /\ chooserCalls = << >>
    /\ editorCalls = << >>
    /\ which_code = "unset"
    /\ launchFailed = FALSE
    /\ editorProc = "none"

\* Exit1 with sys.exit(0).
Exit1_StatusZero(sec, diag) ==
    /\ pc' = "done"
    /\ exitStatus' = 0
    /\ failed' = sec
    /\ stderr' = stderr \o diag

\* sys.exit(1) in section sec, after writing the diagnostics diag.
Exit1(sec, diag) ==
    /\ pc' = "done"
    /\ exitStatus' = 1
    /\ failed' = sec
    /\ stderr' = stderr \o diag

\* An exception nothing catches: the interpreter prints the traceback and
\* the process ends with status 1.
Uncaught(sec) == Exit1(sec, << "traceback" >>)

\* os.environ.get(name, default)
EnvGet(value, default) == IF value # None THEN value ELSE default

(***************************************************************************)
(* Section 1: the search root.                                             *)
(***************************************************************************)
\* DetectGitRoot without the --is-inside-work-tree answer.
DetectGitRoot_NoWorkTreeCheck(g) ==
    IF g \in {"repo", "gitdir"} THEN Some(RepoDir) ELSE None

\* The two rev-parse calls: the top level of the work tree the process is
\* in; None when git is missing, fails, or answers "false".
DetectGitRoot(g) == IF g = "repo" THEN Some(RepoDir) ELSE None

\* not root
RootMissing(r) == r = None \/ r[1] = << >>

NoRootMessage == << "Not in a git repository and MONOREPO_ROOT not set." >>

ResolveRoot ==
    /\ pc = "root"
    /\ log' = Append(log, "root")
    /\ git_root' = DetectGitRoot(gitState)
    /\ LET r == EnvGet(env_root, git_root')
       IN  IF RootMissing(r)
           THEN /\ Exit1("root", NoRootMessage)
                /\ root' = root
           ELSE /\ root' = real(r[1])
                /\ pc' = "enum"
                /\ UNCHANGED << exitStatus, failed, stderr >>
    /\ UNCHANGED << world, markers, files, candidates, lines, out, returncode, key,
                    full, enumerated, stdout, chooserCalls, editorCalls, which_code,
                    launchFailed, editorProc >>

(***************************************************************************)
(* Sections 2 and 3: the markers and the file list.                        *)
(***************************************************************************)
\* How git ls-files ends for the state of git.
LsFiles(g) ==
    CASE g = "missing" -> "FileNotFoundError"
      [] g = "notrepo" -> "CalledProcessError"
      [] OTHER -> "ok"

\* except subprocess.CalledProcessError
Caught(exc) == exc = "CalledProcessError"

\* f lies below directory d.
Below(f, d) ==
    /\ Len(Components(d)) < Len(Components(f))
    /\ SubSeq(Components(f), 1, Len(Components(d))) = Components(d)

\* The directories between r and file f, r excluded.
DirsBetween(f, r) == SubSeq(Components(f), Len(Components(r)) + 1, Len(Components(f)) - 1)

\* git ls-files -co --exclude-standard in r: the files below r, relative to
\* r, that are neither git metadata nor ignored.
GitListing(r) ==
    { relpath(f, r) : f \in { g \in fs : /\ Below(g, r)
                                          /\ ~ Below(g, Under(RepoDir, DotGit))
                                          /\ ~ Below(g, IgnoredDir) } }

\* The -z output for a listing in the order git gives it: the order of
\* the index, which is that of the bytes of the paths.
RECURSIVE GitOutput(_)
GitOutput(order) ==
    IF order = << >> THEN << >>
    ELSE order[1] \o << NUL >> \o GitOutput(Tail(order))

\* [f for f in out.split("\x00") if f]
ParseZ(o) == SelectSeq(Split(o, NUL), NonEmpty)

\* os.walk(r) with every .git directory pruned: the files below r that no
\* .git directory holds, relative to r.
WalkListing(r) ==
    { relpath(join(dirname(f), basename(f)), r) :
        f \in { g \in fs : Below(g, r) /\ DotGit \notin Range(DirsBetween(g, r)) } }

\* The orders in which the walk may list a set: that of the directory
\* entries, which the file system decides.
Perms(S) == { s \in [1..Cardinality(S) -> S] : Range(s) = S }

EnumerateFiles ==
    /\ pc = "enum"
    /\ log' = Append(log, "enum")
    /\ markers' = SplitWords(EnvGet(env_markers, Some(DefaultMarkers))[1])
    /\ LET res == LsFiles(gitState)
       IN  IF res = "ok"
           THEN /\ files' = ParseZ(GitOutput(Sorted(GitListing(root))))
                /\ enumerated' = "git"
                /\ pc' = "match"
                /\ UNCHANGED << exitStatus, failed, stderr >>
           ELSE IF Caught(res)
           THEN /\ \E order \in Perms(WalkListing(root)) : files' = order
                /\ enumerated' = "walk"
                /\ pc' = "match"
                /\ UNCHANGED << exitStatus, failed, stderr >>
           ELSE /\ Uncaught("enum")
                /\ UNCHANGED << files, enumerated >>
    /\ UNCHANGED << world, git_root, root, candidates, lines, out, returncode, key,
                    full, stdout, chooserCalls, editorCalls, which_code,
                    launchFailed, editorProc >>

(***************************************************************************)
(* Section 4: the project directories.                                     *)
(***************************************************************************)
\* The loop over files: the canonical directory of every file whose name
\* is a marker.
CandidateSet(fl, ms, r) ==
    { real(join(r, dirname(fl[i]))) :
        i \in { j \in DOMAIN fl : basename(fl[j]) \in Range(ms) } }

\* NoCandidates that never holds: no test of the candidate list.
NoCandidates_Never(c) == FALSE

\* not candidates
NoCandidates(c) == c = << >>

MatchMarkers ==
    /\ pc = "match"
    /\ log' = Append(log, "match")
    /\ candidates' = Sorted(CandidateSet(files, markers, root))
    /\ IF NoCandidates(candidates')
       THEN Exit1("match", << >>)
       ELSE /\ pc' = "choose"
            /\ UNCHANGED << exitStatus, failed, stderr >>
    /\ UNCHANGED << world, git_root, root, markers, files, lines, out, returncode,
                    key, full, enumerated, stdout, chooserCalls, editorCalls,
                    which_code, launchFailed, editorProc >>

(***************************************************************************)
(* Section 5: the chooser.                                                 *)
(***************************************************************************)
KeyTab == << "t", "a", "b" >>
KeyEnter == << "e", "n", "t", "e", "r" >>

\* f"{short}\t{full}" with short = os.path.relpath(full, root) or "."
Record(c, r) ==
    LET rel == relpath(c, r)
        short == IF rel = << >> THEN << "." >> ELSE rel
    IN  short \o << TAB >> \o c

\* What the chooser process may do with the records ls it is given.  It may
\* fail to start.  Started, it reports a key and a record, each on a line
\* of its own; or it is dismissed (status 130, or 1 with whatever it had
\* written); or it writes nothing, one line only, or a second line that
\* has no tab.
ChooserOutcomes(ls) ==
    LET Sel(k, l) == k \o << LF >> \o l \o << LF >>
        Ran(rc, o) == [started |-> TRUE, rc |-> rc, out |-> o]
    IN  { [started |-> FALSE, rc |-> 0, out |-> << >>] }
        \cup { Ran(0, Sel(k, l)) : k \in {KeyTab, KeyEnter, KeyTab \o << " " >>},
                                   l \in Range(ls) }
        \cup { Ran(130, << >>),
               Ran(1, IF ls = << >> THEN << >> ELSE Sel(KeyTab, ls[1])),
               Ran(0, << >>),
               Ran(0, KeyTab \o << LF >>),
               Ran(0, Sel(KeyTab, << "." >>)) }

\* Cancelled without the test of the return code.
Cancelled_OutputOnly(rc, o) == o = << >>

\* proc.returncode != 0 or not out
Cancelled(rc, o) == rc # 0 \/ o = << >>

RunChooser ==
    /\ pc = "choose"
    /\ log' = Append(log, "choose")
    /\ lines' = [i \in DOMAIN candidates |-> Record(candidates[i], root)]
    /\ chooserCalls' = Append(chooserCalls, Join(<< LF >>, lines'))
    /\ \E o \in ChooserOutcomes(lines') :
          IF ~ o.started
          THEN /\ Uncaught("choose")
               /\ UNCHANGED << out, returncode >>
          ELSE /\ out' = o.out
               /\ returncode' = o.rc
               /\ IF Cancelled(o.rc, o.out)
                  THEN Exit1("choose", << >>)
                  ELSE /\ pc' = "parse"
                       /\ UNCHANGED << exitStatus, failed, stderr >>
    /\ UNCHANGED << world, git_root, root, markers, files, candidates, key, full,
                    enumerated, stdout, editorCalls, which_code, launchFailed,
                    editorProc >>

(***************************************************************************)
(* Section 6: the selection, the printed path and the editor.              *)
(***************************************************************************)
\* len(parts) < 2
TooFewLines(parts) == Len(parts) < 2

\* "\t" not in sel
NoTab(sel) == Positions(sel, TAB) = {}

ParseSelection ==
    /\ pc = "parse"
    /\ LET parts == SplitLines(out)
       IN  IF TooFewLines(parts)
           THEN /\ Exit1("parse", << >>)
                /\ UNCHANGED << key, full, stdout, log >>
           ELSE /\ key' = Strip(parts[1])
                /\ IF NoTab(parts[2])
                   THEN /\ Exit1("parse", << >>)
                        /\ UNCHANGED << full, stdout, log >>
                   ELSE /\ full' = AfterFirstTab(parts[2])
                        /\ stdout' = stdout \o full' \o << LF >>
                        /\ log' = Append(log, "emit")
                        /\ pc' = "editor"
                        /\ UNCHANGED << exitStatus, failed, stderr >>
    /\ UNCHANGED << world, git_root, root, markers, files, candidates, lines, out,
                    returncode, enumerated, chooserCalls, editorCalls, which_code,
                    launchFailed, editorProc >>

\* ShouldLaunch without the test for the launcher.
ShouldLaunch_KeyOnly(k, which) == k = KeyTab

\* key == "tab" and shutil.which("code")
ShouldLaunch(k, which) == k = KeyTab /\ which = "found"

\* The end of main(): the editor is launched or not, and main() returns.
\* Popen may raise although which() found the launcher (a script whose
\* interpreter is missing, a file that is not executable after all, no
\* process or descriptor left): nothing catches that.
LaunchEditor ==
    /\ pc = "editor"
    /\ which_code' \in {"found", "absent"}
    /\ IF ShouldLaunch(key, which_code')
       THEN /\ editorCalls' = Append(editorCalls, full)
            /\ log' = Append(log, "editor")
            /\ \/ /\ editorProc' = "running"
                  /\ pc' = "done"
                  /\ UNCHANGED << exitStatus, failed, stderr, launchFailed >>
               \/ /\ launchFailed' = TRUE
                  /\ Uncaught("editor")
                  /\ UNCHANGED editorProc
       ELSE /\ pc' = "done"
            /\ UNCHANGED << exitStatus, failed, stderr, launchFailed, editorProc,
                            editorCalls, log >>
    /\ UNCHANGED << world, locals, stdout, chooserCalls >>

\* The editor, a process of its own, ends whenever it does.
EditorExits ==
    /\ editorProc = "running"
    /\ editorProc' = "exited"
    /\ UNCHANGED << world, pc, locals, stdout, stderr, exitStatus, log, failed,
                    chooserCalls, editorCalls, which_code, launchFailed >>

Next ==
    \/ ResolveRoot
    \/ EnumerateFiles
    \/ MatchMarkers
    \/ RunChooser
    \/ ParseSelection
    \/ LaunchEditor
    \/ EditorExits

Spec == Init /\ [][Next]_vars

(***************************************************************************)
(* What the properties speak of.                                           *)
(***************************************************************************)
Ran(sec) == sec \in Range(log)

\* The chooser's result is a well-formed selection: it exited with status
\* 0 and wrote at least two lines, the second of which has a tab.
TwoLinesWithTab(o) ==
    /\ Len(SplitLines(o)) >= 2
    /\ \E i \in 1..Len(SplitLines(o)[2]) : SplitLines(o)[2][i] = TAB

WellFormed(rc, o) == rc = 0 /\ TwoLinesWithTab(o)

\* Everything in the second line of o after its first tab.
ChosenPath(o) ==
    LET l == SplitLines(o)[2]
        t == CHOOSE i \in 1..Len(l) : l[i] = TAB /\ \A j \in 1..(i - 1) : l[j] # TAB
    IN  [k \in 1..(Len(l) - t) |-> l[t + k]]

\* What print(path) writes.
Printed(path) == path \o << LF >>

\* C1: in every run where the chooser exits with status 0 and its output
\* has at least two lines whose second line contains a tab, the process
\* writes the chosen path (what follows the first tab of the second line),
\* and only that, to standard output and ends with exit status 0.
C1_PathPrintedAndExitZero ==
    (pc = "done" /\ Ran("choose") /\ WellFormed(returncode, out))
        => (stdout = Printed(ChosenPath(out)) /\ exitStatus = 0)

\* C2: an editor launch that fails leaves standard output (exactly the
\* chosen path) and the exit status (0) as they are when it succeeds.
C2_LaunchFailureIgnored ==
    (pc = "done" /\ launchFailed)
        => (stdout = Printed(ChosenPath(out)) /\ exitStatus = 0)

\* C3: whenever MONOREPO_ROOT is present, whatever its value, the root the
\* rest of the run searches is the canonical form of its value, whatever
\* the detection gave; the detected value is used only when it is absent.
C3_OverrideAlwaysUsed ==
    (Ran("root") /\ env_root # None)
        => (failed # "root" /\ root = real(env_root[1]))

\* C4: with neither an override nor a successful detection, the run writes
\* a diagnostic to standard error, ends with a non-zero status and does
\* nothing more: no enumeration, no marker scan, no chooser, no editor,
\* nothing on standard output.
C4_NoRootAborts ==
    (Ran("root") /\ env_root = None /\ gitState # "repo")
        => /\ pc = "done"
           /\ stderr # << >>
           /\ exitStatus # 0
           /\ log = << "root" >>
           /\ enumerated = "none"
           /\ chooserCalls = << >>
           /\ editorCalls = << >>
           /\ stdout = << >>

C4_Witness ==
    /\ pc = "done"
    /\ env_root = None
    /\ gitState = "notrepo"
    /\ stderr = NoRootMessage

\* No file of the list has a marker as its final component.
NoMarkerFile ==
    \A i \in DOMAIN files : Split(files[i], SLASH)[Len(Split(files[i], SLASH))]
                                \notin Range(markers)

\* C5: if the marker scan produces an empty candidate set, the process
\* exits with a non-zero status, writes nothing to standard output and
\* launches neither the chooser nor the editor.
C5_NoProjectsAborts ==
    (Ran("match") /\ (candidates = << >> \/ NoMarkerFile))
        => /\ pc = "done"
           /\ exitStatus # 0
           /\ stdout = << >>
           /\ chooserCalls = << >>
           /\ editorCalls = << >>

C5_Witness ==
    /\ pc = "done"
    /\ failed = "match"
    /\ files # << >>
    /\ candidates = << >>

\* C6: a chooser result that is not a well-formed selection (non-zero
\* status, empty output, fewer than two lines, second line without a tab)
\* ends the run with exit status 1, nothing on standard output and no
\* editor launched.
C6_BadSelectionAborts ==
    (Ran("choose") /\ pc # "choose" /\ ~ WellFormed(returncode, out))
        => /\ pc \in {"parse", "done"}
           /\ pc = "done" => exitStatus = 1
           /\ stdout = << >>
           /\ editorCalls = << >>

C6_Witness ==
    /\ pc = "done"
    /\ returncode = 0
    /\ Len(SplitLines(out)) = 2
    /\ ~ TwoLinesWithTab(out)
    /\ exitStatus = 1

\* The final component of a relative path, and the directory below r that
\* directly contains the file: r itself for a file at the top level.
FinalComponent(f) == Split(f, SLASH)[Len(Split(f, SLASH))]
ContainingDir(r, f) ==
    Join(<< SLASH >>, << r >> \o SubSeq(Split(f, SLASH), 1, Len(Split(f, SLASH)) - 1))

StrictlyIncreasing(c) ==
    \A i \in DOMAIN c : \A j \in DOMAIN c : i < j => StrLess(c[i], c[j])

\* The files of the example, their directories, and the example's result.
ExampleFiles ==
    << << "a", "/" >> \o PackageJson,
       << "a", "/", "s", "u", "b", "/" >> \o GoMod,
       << "b", "/" >> \o CargoToml >>
ExampleDirs ==
    << Under(RepoDir, << "a" >>),
       Under(RepoDir, << "a", "/", "s", "u", "b" >>),
       Under(RepoDir, << "b" >>) >>

\* C7: the candidate sequence holds exactly the canonical directories that
\* directly contain a file of the list whose final component is a marker
\* (the root for a marker at the top level), each once however many
\* markers it holds, in strictly increasing lexicographic order; so the
\* sequence is a function of the inputs.  The files a/package.json,
\* a/sub/go.mod, b/Cargo.toml with the default markers give R/a, R/a/sub,
\* R/b.
C7_CandidatesExactSortedOnce ==
    /\ Ran("match")
        => /\ Range(candidates)
                = { ContainingDir(root, files[i]) :
                      i \in { j \in DOMAIN files :
                                FinalComponent(files[j]) \in Range(markers) } }
           /\ StrictlyIncreasing(candidates)
    /\ Sorted(CandidateSet(ExampleFiles, SplitWords(DefaultMarkers), RepoDir))
           = ExampleDirs

\* Three marker files, two of them in one directory and one at the top
\* level, give two candidates, the root first.
C7_Witness ==
    /\ Ran("match")
    /\ Len(files) = 3
    /\ \A i \in DOMAIN files : FinalComponent(files[i]) \in Range(markers)
    /\ Len(candidates) = 2
    /\ candidates[1] = root

\* The first line of the chooser's output, trimmed.
ActionKey(o) == Strip(SplitLines(o)[1])

\* C8: on a successful selection the editor is started if and only if the
\* action key is "tab" and a launcher is on the search path; with "enter",
\* any other key or no launcher, nothing is launched.  It is started once
\* at most, with the path that was written to standard output.
C8_EditorIffTabAndLauncher ==
    /\ Len(editorCalls) <= 1
    /\ editorCalls # << >> => Printed(editorCalls[1]) = stdout
    /\ (pc = "done" /\ Ran("emit"))
          => (editorCalls # << >>
                <=> (ActionKey(out) = KeyTab /\ which_code = "found"))

\* The key line "tab " is trimmed to "tab", and the editor is launched.
C8_Witness ==
    /\ pc = "done"
    /\ which_code = "found"
    /\ editorCalls = << full >>
    /\ editorProc = "running"
    /\ SplitLines(out)[1] = KeyTab \o << " " >>

\* The primary listing fails: git cannot be started, or exits non-zero.
PrimaryFails == gitState \in {"missing", "notrepo"}

\* C9: in every run that reaches file enumeration one of the two paths
\* produces the file list: the walk runs if and only if the git listing
\* fails, for both kinds of failure (git exits non-zero, git cannot be
\* started), and the run goes on to the marker scan with the walked list.
C9_WalkOnEveryPrimaryFailure ==
    Ran("enum")
        => /\ enumerated = "walk" <=> PrimaryFails
           /\ PrimaryFails => (failed # "enum" /\ Range(files) = WalkListing(root))

\* The sections of main() and its side effects, in the order of the code.
StageOrder == << "root", "enum", "match", "choose", "emit", "editor" >>

\* The last entry of the log when the run ended in section sec.
LastStageOf(sec) == IF sec = "parse" THEN "choose" ELSE sec

\* C10: root resolution, enumeration, marker matching, chooser, result
\* happen in this order, each once at most, and a stage that fails
\* prevents the later ones.  The chooser is spawned once at most and only
\* for a non-empty candidate list; standard output is written once at most
\* and only after the chooser exited with status 0; the editor is spawned
\* once at most and only after the path was written; and the run has then
\* ended, whether the editor is still running or not.
C10_LinearControlFlow ==
    /\ Len(log) <= Len(StageOrder)
    /\ log = SubSeq(StageOrder, 1, Len(log))
    /\ failed # "" => (pc = "done" /\ log[Len(log)] = LastStageOf(failed))
    /\ Len(chooserCalls) <= 1
    /\ chooserCalls # << >> => (candidates # << >> /\ Ran("match"))
    /\ stdout # << >> => (stdout = Printed(full) /\ returncode = 0 /\ chooserCalls # << >>)
    /\ Len(editorCalls) <= 1
    /\ editorCalls # << >> => stdout # << >>
    /\ editorProc # "none" => pc = "done"

\* The run has ended with status 0 while the editor it started still runs.
C10_Witness ==
    /\ pc = "done"
    /\ exitStatus = 0
    /\ log = StageOrder
    /\ editorProc = "running"

====
